---- MODULE Spec2Model ----
(***************************************************************************)
(* Model of SIMBAD_utils.Client (src/SIMBAD_utils.py): the position and    *)
(* object queries, the notation parser, the script assembly, the transport *)
(* call and the response parsing.                                          *)
(*                                                                         *)
(* A Python string is a sequence of one-character strings.  A value of the *)
(* field `result` is a record [kind, val]: kind "str" (a string), "list"   *)
(* (a list of strings) or "none" (Python's None).                          *)
(***************************************************************************)
EXTENDS Integers, Sequences, FiniteSets, TLC

VARIABLES
    pstring,    \* self.pstring
    ostring,    \* self.ostring (meaningful when ostringSet)
    ostringSet, \* whether the attribute self.ostring exists
    ra,         \* self.ra
    dec,        \* self.dec
    radius,     \* self.radius
    frame,      \* self.frame
    equinox,    \* self.equinox
    epoch,      \* self.epoch
    qType,      \* self.qType ("" before the first call)
    elements,   \* self.elements
    script,     \* self.script
    result,     \* self.result
    error,      \* self.error
    op,         \* the last step: "init", "set" (an attribute was assigned),
                \* "pos" (doPositionQuery) or "obj" (doObjectQuery)
    outcome,    \* how the last operation ended: "none" (no operation yet),
                \* "ok" or the name of the exception it raised
    sent,       \* HTTP requests issued by the last operation
    httpOk,     \* whether the transport answered it with status 200
    body        \* r.text of that answer

vars == <<pstring, ostring, ostringSet, ra, dec, radius, frame, equinox, epoch,
          qType, elements, script, result, error, op, outcome, sent, httpOk,
          body>>

-----------------------------------------------------------------------------
(* Strings *)

Digits == {"0", "1", "2", "3", "4", "5", "6", "7", "8", "9"}

\* [0-9]
IsDigit(c) == c \in Digits

\* \s
IsSpace(c) == c \in {" ", "\t", "\n", "\r", "\f"}

\* [0-9\.\ ]
IsCoordChar(c) == IsDigit(c) \/ c = "." \/ c = " "

\* [\-\+]
IsSign(c) == c \in {"+", "-"}

\* ['"]
IsQuote(c) == c \in {"'", "\""}

\* The end (exclusive) of the longest run of digits of s that starts at i.
DigitRunEnd(s, i) ==
    CHOOSE j \in i..(Len(s) + 1) :
        /\ \A k \in i..(j - 1) : IsDigit(s[k])
        /\ (j = Len(s) + 1 \/ ~IsDigit(s[j]))

\* The same for whitespace.
SpaceRunEnd(s, i) ==
    CHOOSE j \in i..(Len(s) + 1) :
        /\ \A k \in i..(j - 1) : IsSpace(s[k])
        /\ (j = Len(s) + 1 \/ ~IsSpace(s[j]))

\* The same for the characters of a coordinate group.
CoordRunEnd(s, i) ==
    CHOOSE j \in i..(Len(s) + 1) :
        /\ \A k \in i..(j - 1) : IsCoordChar(s[k])
        /\ (j = Len(s) + 1 \/ ~IsCoordChar(s[j]))

Min(S) == CHOOSE x \in S : \A y \in S : x <= y
Max(S) == CHOOSE x \in S : \A y \in S : x >= y

\* a + b + ... for strings
Cat(ss) ==
    LET RECURSIVE cat(_)
        cat(i) == IF i > Len(ss) THEN <<>> ELSE ss[i] \o cat(i + 1)
    IN cat(1)

\* re.search(literal, s) is not None
Contains(s, pat) ==
    \E i \in 1..(Len(s) - Len(pat) + 1) : SubSeq(s, i, i + Len(pat) - 1) = pat

\* The k-th smallest element of a set of integers.
Nth(S, k) == CHOOSE x \in S : Cardinality({y \in S : y < x}) = k - 1

\* s.split(c): n occurrences of c give n + 1 parts, empty ones included.
SplitOn(s, c) ==
    LET at == {i \in 1..Len(s) : s[i] = c}
        n == Cardinality(at)
        cut(k) == IF k = 0 THEN 0 ELSE IF k = n + 1 THEN Len(s) + 1 ELSE Nth(at, k)
    IN [k \in 1..(n + 1) |-> SubSeq(s, cut(k - 1) + 1, cut(k) - 1)]

\* s.split(): the maximal runs of non-whitespace characters.
SplitWs(s) ==
    LET starts == {i \in 1..Len(s) :
                      ~IsSpace(s[i]) /\ (i = 1 \/ IsSpace(s[i - 1]))}
        stop(i) == Min({j \in (i + 1)..(Len(s) + 1) : j = Len(s) + 1 \/ IsSpace(s[j])})
    IN [k \in 1..Cardinality(starts) |->
            LET i == Nth(starts, k) IN SubSeq(s, i, stop(i) - 1)]

\* sep.join(parts)
Join(parts, sep) ==
    LET RECURSIVE join(_)
        join(i) ==
            IF i > Len(parts) THEN <<>>
            ELSE IF i = Len(parts) THEN parts[i]
            ELSE parts[i] \o sep \o join(i + 1)
    IN join(1)

\* re.sub('[\'\"]', '', s)
StripQuotes(s) == SelectSeq(s, LAMBDA c : ~IsQuote(c))

DigitVal(c) ==
    CASE c = "0" -> 0 [] c = "1" -> 1 [] c = "2" -> 2 [] c = "3" -> 3
      [] c = "4" -> 4 [] c = "5" -> 5 [] c = "6" -> 6 [] c = "7" -> 7
      [] c = "8" -> 8 [] c = "9" -> 9

DigitChar(n) ==
    CASE n = 0 -> "0" [] n = 1 -> "1" [] n = 2 -> "2" [] n = 3 -> "3"
      [] n = 4 -> "4" [] n = 5 -> "5" [] n = 6 -> "6" [] n = 7 -> "7"
      [] n = 8 -> "8" [] n = 9 -> "9"

\* int(s) for a string of digits
ToInt(s) ==
    LET RECURSIVE val(_)
        val(n) == IF n = 0 THEN 0 ELSE 10 * val(n - 1) + DigitVal(s[n])
    IN val(Len(s))

\* "%s" % n for an integer n >= 0
ToStr(n) ==
    LET RECURSIVE str(_)
        str(k) == IF k < 10 THEN <<DigitChar(k)>>
                  ELSE Append(str(k \div 10), DigitChar(k % 10))
    IN str(n)

-----------------------------------------------------------------------------
(* The two patterns of doPositionQuery *)

\* rpat.search(s), rpat = ([0-9]+)\s+([0-9]+)\s*([0-9]+)?
\* A match starts at the leftmost digit whose run of digits is followed by
\* whitespace and a digit; group 2 is the whole second run of digits, and
\* group 3 the run of digits after the whitespace that follows it, if any.
RpatSearch(s) ==
    LET ok(i) == /\ IsDigit(s[i])
                 /\ LET j == DigitRunEnd(s, i)
                    IN /\ j <= Len(s)
                       /\ IsSpace(s[j])
                       /\ LET k == SpaceRunEnd(s, j)
                          IN k <= Len(s) /\ IsDigit(s[k])
        starts == {i \in 1..Len(s) : ok(i)}
    IN IF starts = {} THEN [found |-> FALSE, g1 |-> <<>>, g2 |-> <<>>,
                            has3 |-> FALSE, g3 |-> <<>>]
       ELSE LET i == Min(starts)
                j == DigitRunEnd(s, i)
                k == SpaceRunEnd(s, j)
                l == DigitRunEnd(s, k)
                m == SpaceRunEnd(s, l)
                h == m <= Len(s) /\ IsDigit(s[m])
            IN [found |-> TRUE,
                g1 |-> SubSeq(s, i, j - 1),
                g2 |-> SubSeq(s, k, l - 1),
                has3 |-> h,
                g3 |-> IF h THEN SubSeq(s, m, DigitRunEnd(s, m) - 1) ELSE <<>>]

\* ppat.search(s), ppat = ([0-9\.\ ]+)\s+([\-\+][0-9\.\ ]+)
\* Group 1 is greedy: from the leftmost start that matches at all it is the
\* longest run of coordinate characters that leaves whitespace, a sign and a
\* coordinate character behind it.
PpatSearch(s) ==
    LET ok(i, j) == /\ \A x \in i..(j - 1) : IsCoordChar(s[x])
                    /\ IsSpace(s[j])
                    /\ LET k == SpaceRunEnd(s, j)
                       IN /\ k + 1 <= Len(s)
                          /\ IsSign(s[k])
                          /\ IsCoordChar(s[k + 1])
        ends(i) == {j \in (i + 1)..Len(s) : ok(i, j)}
        starts == {i \in 1..Len(s) : ends(i) # {}}
    IN IF starts = {} THEN [found |-> FALSE, g1 |-> <<>>, g2 |-> <<>>]
       ELSE LET i == Min(starts)
                j == Max(ends(i))
                k == SpaceRunEnd(s, j)
            IN [found |-> TRUE,
                g1 |-> SubSeq(s, i, j - 1),
                g2 |-> SubSeq(s, k, CoordRunEnd(s, k + 1) - 1)]

\* Lines 120-124: radec, rad = pos.split(':'), and on ValueError (no colon,
\* or more than one) rad = '' and radec = pos.
SplitNotation(pos) ==
    LET parts == SplitOn(pos, ":")
    IN IF Len(parts) = 2 THEN [radec |-> parts[1], rad |-> parts[2]]
       ELSE [radec |-> pos, rad |-> <<>>]

\* Line 131 with >= for >: a zero first group keeps its hours.
FirstGroupNonNegative(g1) == ToInt(g1) >= 0

\* Line 131: int(rmat.group(1)) > 0
FirstGroupPositive(g1) == ToInt(g1) > 0

\* Lines 126-134: the radius as rewritten from the groups of rpat.
RewriteRadius(rad) ==
    LET rmat == RpatSearch(rad)
    IN IF ~rmat.found THEN rad
       ELSE IF rmat.has3
            THEN Cat(<<rmat.g1, <<"h">>, rmat.g2, <<"m">>, ToStr(ToInt(rmat.g3)), <<"s">>>>)
       ELSE IF FirstGroupPositive(rmat.g1)
            THEN Cat(<<rmat.g1, <<"h">>, rmat.g2, <<"m">>>>)
       ELSE Cat(<<rmat.g2, <<"m">>>>)

\* Lines 144-147 without the test for m: d is appended to every radius.
QualifyRadiusAlways(rad) == rad \o <<"d">>

\* Lines 144-147: the qualifier of a non-empty radius.
QualifyRadius(rad) ==
    IF Contains(rad, <<"m">>) THEN rad ELSE rad \o <<"d">>

\* Lines 112-147: the notation parsed against the fields ra0, dec0, radius0
\* the client holds.  raised: IncorrectInputError of line 141.
ParseNotation(ps, ra0, dec0, radius0) ==
    IF ps = <<>>
    THEN [raised |-> FALSE, radec |-> <<>>, rad |-> <<>>,
          ra |-> ra0, dec |-> dec0, radius |-> radius0]
    ELSE LET pos == StripQuotes(ps)
             sp == SplitNotation(pos)
             rad == RewriteRadius(sp.rad)
             pmat == PpatSearch(sp.radec)
         IN IF ~pmat.found
            THEN [raised |-> TRUE, radec |-> sp.radec, rad |-> rad,
                  ra |-> ra0, dec |-> dec0, radius |-> radius0]
            ELSE [raised |-> FALSE, radec |-> sp.radec, rad |-> rad,
                  ra |-> pmat.g1, dec |-> pmat.g2,
                  radius |-> IF rad # <<>> THEN QualifyRadius(rad) ELSE radius0]

-----------------------------------------------------------------------------
(* The script *)

\* self.frames, line 81
frames == {<<"I", "C", "R", "S">>, <<"F", "K", "4">>, <<"F", "K", "5">>, <<"G", "A", "L">>, <<"S", "G", "A", "L">>, <<"E", "C", "L">>}

\* self.qFormats, lines 88-89
qFormats(qt) == IF qt = "posquery" THEN <<"%", "I", "D", "L", "I", "S", "T", "(", "1", ")">> ELSE <<"%", "I", "D", "L", "I", "S", "T", "(", "1", ")">>

\* __setscriptheader without line 258: the sentinel line is not appended.
setscriptheaderNoSentinel(els, qt) ==
    els \o << <<"o", "u", "t", "p", "u", "t", " ", "c", "o", "n", "s", "o", "l", "e", "=", "o", "f", "f", " ", "e", "r", "r", "o", "r", "=", "o", "f", "f", " ", "s", "c", "r", "i", "p", "t", "=", "o", "f", "f">>,
              Cat(<<<<"f", "o", "r", "m", "a", "t", " ", "o", "b", "j", " ", "\"">>, qFormats(qt), <<"\"">>>>),
              <<"r", "e", "s", "u", "l", "t", " ", "o", "i", "d">> >>

\* __setscriptheader, lines 246-258: the four lines appended to the elements.
setscriptheader(els, qt) ==
    els \o << <<"o", "u", "t", "p", "u", "t", " ", "c", "o", "n", "s", "o", "l", "e", "=", "o", "f", "f", " ", "e", "r", "r", "o", "r", "=", "o", "f", "f", " ", "s", "c", "r", "i", "p", "t", "=", "o", "f", "f">>,
              Cat(<<<<"f", "o", "r", "m", "a", "t", " ", "o", "b", "j", " ", "\"">>, qFormats(qt), <<"\"">>>>),
              <<"r", "e", "s", "u", "l", "t", " ", "o", "i", "d">>,
              <<"e", "c", "h", "o", "d", "a", "t", "a", " ", "X", "X", "X">> >>

\* Lines 149-173 without lines 153-154: the qualifier of the radius is not
\* checked.
CooQueryNoQualifierCheck(ra0, dec0, radius0, frame0, equinox0, epoch0) ==
    IF ra0 # <<>> /\ dec0 # <<>>
    THEN IF ~IsSign(dec0[1])
         THEN [raised |-> TRUE, clearsResult |-> FALSE, line |-> <<>>]
         ELSE [raised |-> FALSE, clearsResult |-> FALSE,
               line |-> Cat(<<
                   <<"q", "u", "e", "r", "y", " ", "c", "o", "o", " ">>, ra0, <<" ">>, dec0,
                   IF radius0 # <<>> THEN <<" ", "r", "a", "d", "i", "u", "s", "=">> \o radius0 ELSE <<>>,
                   IF frame0 # <<>> /\ frame0 \in frames
                       THEN <<" ", "f", "r", "a", "m", "e", " ">> \o frame0 ELSE <<>>,
                   IF equinox0 # <<>> THEN <<" ", "e", "q", "u", "i", "=">> \o equinox0 ELSE <<>>,
                   IF epoch0 # <<>> THEN <<"e", "p", "o", "c", "h", "=">> \o epoch0 ELSE <<>> >>)]
    ELSE [raised |-> TRUE, clearsResult |-> TRUE, line |-> <<>>]

\* Lines 149-173: the coordinate query line.  raised: IncorrectInputError of
\* line 151, 154 or 173; clearsResult: line 172 ran.
CooQuery(ra0, dec0, radius0, frame0, equinox0, epoch0) ==
    IF ra0 # <<>> /\ dec0 # <<>>
    THEN IF ~IsSign(dec0[1])
         THEN [raised |-> TRUE, clearsResult |-> FALSE, line |-> <<>>]
         ELSE IF radius0 # <<>> /\ radius0[Len(radius0)] \notin {"h", "m", "s", "d"}
         THEN [raised |-> TRUE, clearsResult |-> FALSE, line |-> <<>>]
         ELSE [raised |-> FALSE, clearsResult |-> FALSE,
               line |-> Cat(<<
                   <<"q", "u", "e", "r", "y", " ", "c", "o", "o", " ">>, ra0, <<" ">>, dec0,
                   IF radius0 # <<>> THEN <<" ", "r", "a", "d", "i", "u", "s", "=">> \o radius0 ELSE <<>>,
                   IF frame0 # <<>> /\ frame0 \in frames
                       THEN <<" ", "f", "r", "a", "m", "e", " ">> \o frame0 ELSE <<>>,
                   IF equinox0 # <<>> THEN <<" ", "e", "q", "u", "i", "=">> \o equinox0 ELSE <<>>,
                   IF epoch0 # <<>> THEN <<"e", "p", "o", "c", "h", "=">> \o epoch0 ELSE <<>> >>)]
    ELSE [raised |-> TRUE, clearsResult |-> TRUE, line |-> <<>>]

\* Lines 214-224: the object query element.  raised: IncorrectInputError of
\* line 224.
ObjQuery(os) ==
    LET objects == IF os # <<>> THEN SplitOn(os, ",") ELSE <<>>
    IN IF Len(objects) > 0
       THEN [raised |-> FALSE, line |-> Join(objects, <<"\n">>)]
       ELSE [raised |-> TRUE, line |-> <<>>]

-----------------------------------------------------------------------------
(* The transport and the response *)

Str(s) == [kind |-> "str", val |-> s]
List(l) == [kind |-> "list", val |-> l]
None == [kind |-> "none", val |-> <<>>]

\* __doQuery, lines 260-277: None on a status other than 200, else r.text.
doQuery(ok, text) == IF ok THEN Str(text) ELSE None

\* filter(lambda a: len(a) > 0 and a != 'XXX', text.split('\n'))
DataLines(text) ==
    SelectSeq(SplitOn(text, "\n"), LAMBDA a : Len(a) > 0 /\ a # <<"X", "X", "X">>)

\* Lines 179 and 230: re.search(':error:', self.result)
HasErrorMarker(text) == Contains(text, <<":", "e", "r", "r", "o", "r", ":">>)

\* Lines 182-185: the error message of a response that holds the marker.
ErrorMessage(text) ==
    Join(SelectSeq(DataLines(text), LAMBDA a : ~Contains(a, <<":", ":", ":">>)), <<" ">>)

\* Lines 189-191: the identifiers of a response.
Identifiers(text) ==
    LET lines == DataLines(text)
        toks == [i \in 1..Len(lines) |-> SplitWs(lines[i])]
        two == SelectSeq(toks, LAMBDA b : Len(b) = 2)
    IN [i \in 1..Len(two) |-> two[i][2]]

\* Line 188 and 239: not self.error
TakesSuccessPath(err) == err = <<>>

\* Lines 179-191 (and 230-242) on a response text, given the error field as
\* the operation found it.
ParseResponse(text, error0) ==
    LET err == IF HasErrorMarker(text) THEN ErrorMessage(text) ELSE error0
    IN [error |-> err,
        result |-> IF TakesSuccessPath(err) THEN List(Identifiers(text)) ELSE Str(text)]

-----------------------------------------------------------------------------
(* Inputs *)

\* The longest generated radius text of a notation.
MaxRadLen == 5

\* Notations a caller assigns to pstring.
Notations ==
    { <<>>,
      <<"1", " ", "+", "2">>,
      <<"1", " ", "+", "2", ":", "0", " ", "6">>,
      <<"1", " ", "2">>,
      <<"1", " ", "+", "2", ":", "1", "m", "x">> }

\* Comma-separated object names a caller assigns to ostring.
ObjectStrings == { <<>>, <<"M", "3", "1", ",", "M", "1", "0", "1", ",", "T", "W", " ", "H", "y", "d", "r", "a", "e">> }

\* Values a caller assigns to frame, equinox and epoch.
Options ==
    { [frame |-> <<>>, equinox |-> <<>>, epoch |-> <<>>],
      [frame |-> <<"F", "K", "5">>, equinox |-> <<"2", "0", "0", "0">>, epoch |-> <<"J", "2", "0", "0", "0">>],
      [frame |-> <<"X", "Y", "Z">>, equinox |-> <<>>, epoch |-> <<>>] }

\* Coordinates a caller assigns to ra and dec directly.
DirectCoordinates == { [ra |-> <<"1">>, dec |-> <<"2">>] }

\* Response bodies the service answers with.
Bodies ==
    { <<>>,
      <<"X", "X", "X", "\n", "o", "b", "j", "1", " ", "2", "0", "0", "6", "0", "7", "0", "\n", "X", "X", "X">>,
      <<":", ":", "e", "r", "r", "o", "r", ":", ":", " ", "b", "a", "d", " ", "s", "y", "n", "t", "a", "x", "\n", ":", ":", ":", "d", "e", "t", "a", "i", "l", ":", ":", ":">>,
      <<":", ":", ":", "e", "r", "r", "o", "r", ":", ":", ":", " ", "x">>,
      <<"a", " ", "b", " ", "c", "\n", "o", " ", "7", "\n", "\n", "X", "X", "X", "\n", "p", " ", "8", " ">> }

\* The body of an answer whose status is not 200.
FailureBody == <<"I", "n", "t", "e", "r", "n", "a", "l", " ", "S", "e", "r", "v", "e", "r", " ", "E", "r", "r", "o", "r">>

-----------------------------------------------------------------------------
(* The client *)

\* __init__, lines 66-90.  ostring is not among the attributes it sets.
Init ==
    /\ pstring = <<>>
    /\ ostring = <<>>
    /\ ostringSet = FALSE
    /\ ra = <<>>
    /\ dec = <<>>
    /\ radius = <<>>
    /\ frame = <<>>
    /\ equinox = <<>>
    /\ epoch = <<>>
    /\ qType = ""
    /\ elements = <<>>
    /\ script = <<>>
    /\ result = Str(<<>>)
    /\ error = <<>>
    /\ op = "init"
    /\ outcome = "none"
    /\ sent = 0
    /\ httpOk = FALSE
    /\ body = <<>>

\* The caller assigns client.pstring.
SetPstring(p) ==
    /\ pstring' = p
    /\ UNCHANGED <<ostring, ostringSet, ra, dec, radius, frame, equinox, epoch,
                   qType, elements, script, result, error, outcome,
                   sent, httpOk, body>>
    /\ op' = "set"

\* The caller assigns client.ostring.
SetOstring(o) ==
    /\ ostring' = o
    /\ ostringSet' = TRUE
    /\ UNCHANGED <<pstring, ra, dec, radius, frame, equinox, epoch,
                   qType, elements, script, result, error, outcome,
                   sent, httpOk, body>>
    /\ op' = "set"

\* The caller assigns client.frame, client.equinox and client.epoch.
SetOptions(o) ==
    /\ frame' = o.frame
    /\ equinox' = o.equinox
    /\ epoch' = o.epoch
    /\ UNCHANGED <<pstring, ostring, ostringSet, ra, dec, radius,
                   qType, elements, script, result, error, outcome,
                   sent, httpOk, body>>
    /\ op' = "set"

\* The caller assigns client.ra and client.dec.
SetCoordinates(c) ==
    /\ ra' = c.ra
    /\ dec' = c.dec
    /\ UNCHANGED <<pstring, ostring, ostringSet, radius, frame, equinox, epoch,
                   qType, elements, script, result, error, outcome,
                   sent, httpOk, body>>
    /\ op' = "set"

\* The operation raised before line 177 (or 228): no request was issued.
NoRequest ==
    /\ sent' = 0
    /\ httpOk' = FALSE
    /\ body' = <<>>

\* Lines 177-193 and 228-244 given the value r that __doQuery returned: on
\* None re.search raises TypeError, else the text is parsed.
StoreResponse(r, p) ==
    IF r.kind = "none"
    THEN /\ result' = r
         /\ error' = error
         /\ outcome' = "TypeError"
    ELSE /\ result' = p.result
         /\ error' = p.error
         /\ outcome' = "ok"

\* Lines 175-193 and 226-244: the script is formed and sent, and the answer
\* (status ok, text) parsed.
Dispatch(els, ok, text) ==
    /\ elements' = els
    /\ script' = Join(els, <<"\n">>)
    /\ sent' = 1
    /\ httpOk' = ok
    /\ body' = text
    /\ StoreResponse(doQuery(ok, text), ParseResponse(text, error))

\* doPositionQuery given the header hdr (lines 99-110), the parsed notation p
\* (lines 112-147) and the query line q (lines 149-173).
PositionQuery(hdr, p, q, ok, text) ==
    /\ op' = "pos"
    /\ qType' = "posquery"
    /\ ra' = p.ra
    /\ dec' = p.dec
    /\ radius' = p.radius
    /\ UNCHANGED <<pstring, ostring, ostringSet, frame, equinox, epoch>>
    /\ IF Len(hdr) = 0
       THEN /\ outcome' = "NoQueryElementsError"
            /\ elements' = hdr
            /\ script' = <<>>
            /\ NoRequest
            /\ UNCHANGED <<result, error>>
       ELSE IF p.raised \/ q.raised
       THEN /\ outcome' = "IncorrectInputError"
            /\ elements' = hdr
            /\ script' = <<>>
            /\ NoRequest
            /\ result' = IF ~p.raised /\ q.clearsResult THEN Str(<<>>) ELSE result
            /\ UNCHANGED error
       ELSE Dispatch(Append(hdr, q.line), ok, text)

\* Lines 148-193 once the notation is parsed.
PositionQueryParsed(p, ok, text) ==
    PositionQuery(setscriptheader(<<>>, "posquery"), p,
                  CooQuery(p.ra, p.dec, p.radius, frame, equinox, epoch), ok, text)

\* doPositionQuery, lines 92-193, with the transport's answer (ok, text).
DoPositionQuery(ok, text) ==
    PositionQueryParsed(ParseNotation(pstring, ra, dec, radius), ok, text)

\* doObjectQuery given the header hdr (lines 201-212) and the query element
\* q (lines 214-224).
ObjectQuery(hdr, q, ok, text) ==
    /\ op' = "obj"
    /\ qType' = "objquery"
    /\ UNCHANGED <<pstring, ostring, ostringSet, ra, dec, radius, frame,
                   equinox, epoch>>
    /\ IF Len(hdr) = 0
       THEN /\ outcome' = "NoQueryElementsError"
            /\ elements' = hdr
            /\ script' = <<>>
            /\ NoRequest
            /\ UNCHANGED <<result, error>>
       ELSE IF ~ostringSet
       THEN /\ outcome' = "AttributeError"
            /\ elements' = hdr
            /\ script' = <<>>
            /\ NoRequest
            /\ UNCHANGED <<result, error>>
       ELSE IF q.raised
       THEN /\ outcome' = "IncorrectInputError"
            /\ elements' = hdr
            /\ script' = <<>>
            /\ NoRequest
            /\ result' = Str(<<>>)
            /\ UNCHANGED error
       ELSE Dispatch(Append(hdr, q.line), ok, text)

\* doObjectQuery, lines 195-244, with the transport's answer (ok, text).
DoObjectQuery(ok, text) ==
    ObjectQuery(setscriptheader(<<>>, "objquery"), ObjQuery(ostring), ok, text)

Next ==
    \/ \E p \in Notations : SetPstring(p)
    \/ \E o \in ObjectStrings : SetOstring(o)
    \/ \E o \in Options : SetOptions(o)
    \/ \E c \in DirectCoordinates : SetCoordinates(c)
    \/ \E text \in Bodies : DoPositionQuery(TRUE, text)
    \/ \E text \in Bodies : DoObjectQuery(TRUE, text)
    \/ DoPositionQuery(FALSE, FailureBody)
    \/ DoObjectQuery(FALSE, FailureBody)

Spec == Init /\ [][Next]_vars

-----------------------------------------------------------------------------
(* The notation parser on its own: one doPositionQuery of a new client, for  *)
(* every notation made of a position and a generated radius text.           *)

RadAlphabet == {"0", "1", " ", ".", "m", ":"}

\* Every string over RadAlphabet of at most MaxRadLen characters.
RadTexts == UNION { [1..n -> RadAlphabet] : n \in 0..MaxRadLen }

\* The notation of the documentation, line 33.
DocNotation == <<"0", "5", " ", "2", "3", " ", "3", "4", ".", "6", " ", "-", "6", "9", " ", "4", "5", " ", "2", "2", ":", "0", " ", "6">>

ParseNotations ==
    { <<"1", " ", "+", "2", ":">> \o r : r \in RadTexts }
    \cup { <<"1", " ", "+", "2">>, <<"1", " ", "2">>, <<"1", " ", "2", ":", "0", " ", "1">>, <<"1", ":", "2", " ", "+", "3", ":", "4">>, <<"\"", "1", " ", "+", "2", ":", "'", "0", " ", "6", "\"">>,
           <<"1", " ", "+", "2", ":", "1", " ", "2", " ", "0", "3">>, <<"1", " ", "+", "2", ":", "0", "0", " ", "6">>, <<"1", " ", "+", "2", ":", "0", ".", "5", " ", "6">>, <<"1", " ", "+", "2", ":", "1", "\t", "2">>,
           <<"1", " ", " ", "+", "2", " ", ":", "1", " ", "2", " ", "3", " ", "4">>, <<"0", "5", " ", "2", "3", " ", "3", "4", ".", "6", " ", "-", "6", "9", " ", "4", "5", " ", "2", "2", ":", "0", ".", "1", "6", "6", "6", "7">>, DocNotation }

InitParse ==
    /\ pstring \in ParseNotations
    /\ ostring = <<>>
    /\ ostringSet = FALSE
    /\ ra = <<>>
    /\ dec = <<>>
    /\ radius = <<>>
    /\ frame = <<>>
    /\ equinox = <<>>
    /\ epoch = <<>>
    /\ qType = ""
    /\ elements = <<>>
    /\ script = <<>>
    /\ result = Str(<<>>)
    /\ error = <<>>
    /\ op = "init"
    /\ outcome = "none"
    /\ sent = 0
    /\ httpOk = FALSE
    /\ body = <<>>

NextParse ==
    /\ op = "init"
    /\ DoPositionQuery(TRUE, <<"X", "X", "X", "\n", "o", "b", "j", "1", " ", "2", "0", "0", "6", "0", "7", "0", "\n", "X", "X", "X">>)

SpecParse == InitParse /\ [][NextParse]_vars

-----------------------------------------------------------------------------
(* Properties *)

\* The notation as the parser reads it (line 113) and its two parts as the
\* operation took them (lines 120-124).
Stripped == StripQuotes(pstring)
PositionPart == SplitNotation(Stripped).radec
RadiusPart == SplitNotation(Stripped).rad

\* The operation raised IncorrectInputError and issued no request.
Rejected == outcome = "IncorrectInputError" /\ sent = 0

\* Some part of s has the form <RA group> <whitespace> <signed DEC group>.
PositionMatchable(s) ==
    \E i \in 1..Len(s), j \in 1..Len(s), k \in 1..(Len(s) - 1) :
        /\ i < j /\ j < k
        /\ \A x \in i..(j - 1) : IsCoordChar(s[x])
        /\ \A x \in j..(k - 1) : IsSpace(s[x])
        /\ IsSign(s[k])
        /\ IsCoordChar(s[k + 1])

\* The text of s before its first c (all of s when it has none), and the
\* text after it (empty when it has none).
FirstIndex(s, c) == Min({i \in 1..Len(s) : s[i] = c})
BeforeFirst(s, c) ==
    IF \E i \in 1..Len(s) : s[i] = c THEN SubSeq(s, 1, FirstIndex(s, c) - 1) ELSE s
AfterFirst(s, c) ==
    IF \E i \in 1..Len(s) : s[i] = c
    THEN SubSeq(s, FirstIndex(s, c) + 1, Len(s)) ELSE <<>>

AllDigits(s) == Len(s) > 0 /\ \A i \in 1..Len(s) : IsDigit(s[i])
AllZeros(s) == Len(s) > 0 /\ \A i \in 1..Len(s) : s[i] = "0"

\* s without its leading zeros, one digit at least kept.
Canonical(s) ==
    LET nz == {i \in 1..Len(s) : s[i] # "0"}
    IN IF nz = {} THEN <<"0">> ELSE SubSeq(s, Min(nz), Len(s))

\* The four header lines, as the service's script grammar names them.
HeaderLines ==
    << <<"o", "u", "t", "p", "u", "t", " ", "c", "o", "n", "s", "o", "l", "e", "=", "o", "f", "f", " ", "e", "r", "r", "o", "r", "=", "o", "f", "f", " ", "s", "c", "r", "i", "p", "t", "=", "o", "f", "f">>,
       <<"f", "o", "r", "m", "a", "t", " ", "o", "b", "j", " ", "\"", "%", "I", "D", "L", "I", "S", "T", "(", "1", ")", "\"">>,
       <<"r", "e", "s", "u", "l", "t", " ", "o", "i", "d">>,
       <<"e", "c", "h", "o", "d", "a", "t", "a", " ", "X", "X", "X">> >>

\* C1: after a call that completed, result and error are those the last
\* call's response produces on a client whose error field is clear.
C1_StateOfLastCallOnly ==
    outcome = "ok" =>
        /\ error = ParseResponse(body, <<>>).error
        /\ result = ParseResponse(body, <<>>).result

\* C2: a response holding :error: never yields a non-empty identifier
\* list, and a response without :error: never yields a non-empty error.
C2_ErrorAndResultExclusive ==
    outcome = "ok" =>
        /\ Contains(body, <<":", "e", "r", "r", "o", "r", ":">>) => ~(result.kind = "list" /\ result.val # <<>>)
        /\ ~Contains(body, <<":", "e", "r", "r", "o", "r", ":">>) => error = <<>>

\* C3: when the transport answers with a status other than 200, the
\* operation finishes without raising, after one request, and leaves an
\* empty result.
C3_BadStatusDoesNotRaise ==
    (op \in {"pos", "obj"} /\ sent >= 1 /\ ~httpOk) =>
        /\ outcome = "ok"
        /\ sent = 1
        /\ result.val = <<>>

\* C4: an operation whose input fails validation raises IncorrectInputError
\* and sends no request: a DEC without a leading sign, a notation whose
\* position part cannot be matched, a radius not ending in h, m, s or d, an
\* empty object-name string.
C4_InvalidInputNotDispatched ==
    /\ (op = "pos" /\ ra # <<>> /\ dec # <<>> /\ ~IsSign(dec[1])) => Rejected
    /\ (op = "pos" /\ pstring # <<>> /\ ~PositionMatchable(PositionPart)) => Rejected
    /\ (op = "pos" /\ radius # <<>> /\ radius[Len(radius)] \notin {"h", "m", "s", "d"})
            => Rejected
    /\ (op = "obj" /\ ostringSet /\ ostring = <<>>) => Rejected

\* C4's case: a position query on coordinates whose DEC has no sign was
\* rejected.
C4_Witness ==
    /\ op = "pos"
    /\ pstring = <<>>
    /\ dec = <<"2">>
    /\ Rejected

\* C5: when the response has no :error: marker, the result is the list of
\* the second tokens of its two-token lines, in order, and no error is
\* reported.
C5_IdentifiersOfResponse ==
    (outcome = "ok" /\ ~Contains(body, <<":", "e", "r", "r", "o", "r", ":">>)) =>
        /\ result = List(Identifiers(body))
        /\ error = <<>>

\* C6: the position part is the text before the first colon of the
\* notation and the radius part the text after it, also when the notation
\* holds more than one colon.
C6_SplitAtFirstColon ==
    (op = "pos" /\ pstring # <<>>) =>
        /\ PositionPart = BeforeFirst(Stripped, ":")
        /\ RadiusPart = AfterFirst(Stripped, ":")

\* C7: the radius of a parsed notation follows the unit rules: three groups
\* give <h>h<m>m<s>s with the seconds as an integer, two groups give
\* <g1>h<g2>m when the first is positive and <g2>m when it is zero, and a
\* radius without m gets d appended while one with m is kept.
C7_RadiusNormalization ==
    (op = "pos" /\ ra # <<>> /\ RadiusPart # <<>>) =>
        LET toks == SplitWs(RadiusPart)
            groups == \A i \in 1..Len(toks) : AllDigits(toks[i])
        IN /\ (groups /\ Len(toks) = 3) =>
                radius = Cat(<<toks[1], <<"h">>, toks[2], <<"m">>, Canonical(toks[3]), <<"s">>>>)
           /\ (groups /\ Len(toks) = 2 /\ ~AllZeros(toks[1])) =>
                radius = Cat(<<toks[1], <<"h">>, toks[2], <<"m">>>>)
           /\ (groups /\ Len(toks) = 2 /\ AllZeros(toks[1])) =>
                radius = Cat(<<toks[2], <<"m">>>>)
           /\ (Len(toks) <= 1) =>
                radius = IF Contains(RadiusPart, <<"m">>) THEN RadiusPart
                         ELSE RadiusPart \o <<"d">>
           /\ Contains(radius, <<"m">>) \/ radius[Len(radius)] = "d"

\* C7's case: a radius of three groups was parsed.
C7_Witness ==
    /\ op = "pos"
    /\ pstring = <<"1", " ", "+", "2", ":", "1", " ", "0", " ", "1">>
    /\ radius = <<"1", "h", "0", "m", "1", "s">>

\* C8 as stated: the notation of the documentation parses to RA 05 23 34.6,
\* DEC -69 45 22 and radius 0h6m.
C8_DocNotationAsStated ==
    (op = "pos" /\ pstring = DocNotation) =>
        /\ ra = <<"0", "5", " ", "2", "3", " ", "3", "4", ".", "6">>
        /\ dec = <<"-", "6", "9", " ", "4", "5", " ", "2", "2">>
        /\ radius = <<"0", "h", "6", "m">>

\* C8 as amended: the notation of the documentation parses to RA
\* 05 23 34.6, DEC -69 45 22 and radius 6m.
C8_DocNotationParsed ==
    (op = "pos" /\ pstring = DocNotation) =>
        /\ ra = <<"0", "5", " ", "2", "3", " ", "3", "4", ".", "6">>
        /\ dec = <<"-", "6", "9", " ", "4", "5", " ", "2", "2">>
        /\ radius = <<"6", "m">>

\* C8's case: the notation of the documentation was parsed and its query
\* sent.
C8_Witness ==
    /\ op = "pos"
    /\ pstring = DocNotation
    /\ sent = 1

\* C9: a dispatched script is the four header lines, in order, and one
\* query element; for an object query its lines after the header are the
\* names, in input order.
C9_ScriptShape ==
    sent = 1 =>
        /\ Len(elements) = Len(HeaderLines) + 1
        /\ SubSeq(elements, 1, Len(HeaderLines)) = HeaderLines
        /\ script = Cat(<<Join(HeaderLines, <<"\n">>), <<"\n">>, elements[Len(elements)]>>)
        /\ op = "pos" => SubSeq(elements[Len(elements)], 1, 10) = <<"q", "u", "e", "r", "y", " ", "c", "o", "o", " ">>
        /\ op = "obj" => SplitOn(script, "\n") = HeaderLines \o SplitOn(ostring, ",")

\* C9's case: an object query for three names was sent by a client that had
\* parsed a notation in an earlier position query.
C9_Witness ==
    /\ op = "obj"
    /\ sent = 1
    /\ ostring = <<"M", "3", "1", ",", "M", "1", "0", "1", ",", "T", "W", " ", "H", "y", "d", "r", "a", "e">>
    /\ ra = <<"1">>
    /\ dec = <<"+", "2">>

\* C10: the query line of a notation without a radius part holds no radius
\* clause.
C10_NoRadiusInjected ==
    (op = "pos" /\ sent = 1 /\ pstring # <<>> /\ ~Contains(Stripped, <<":">>)) =>
        ~Contains(elements[Len(elements)], <<"r", "a", "d", "i", "u", "s", "=">>)

====
